---------------------------- MODULE Spec2Model ----------------------------
(***************************************************************************)
(* Output registry (Outputs) and menu state machine of the status bar,     *)
(* driven by the application controller's event handlers (App::update).    *)
(*                                                                         *)
(* Option<T> values are sequences of length at most one: <<>> is None and  *)
(* <<x>> is Some(x).  Strings that the code inspects character by          *)
(* character (display names, filter targets) are sequences of one-letter   *)
(* strings.  A Task<Message> is the sequence of the requests it batches,   *)
(* in the order the code pushes them.                                      *)
(***************************************************************************)
EXTENDS Integers, Sequences, FiniteSets, TLC

(***************************************************************************)
(* Bounds of the model.                                                    *)
(***************************************************************************)
\* Surface ids are drawn from 1..MaxIds; an event that would need more is not taken.
MaxIds == 8
\* The registry vector holds at most MaxEntries entries.
MaxEntries == 3

\* The properties about sequences of menu calls follow at most MaxCalls calls.
MaxCalls == 3

\* crate::HEIGHT, the base bar height
HEIGHT == 34

(***************************************************************************)
(* Values.                                                                 *)
(***************************************************************************)
\* The display handles (WlOutput proxies) the compositor announces.
Handles == {1, 2}

Fallback == <<"F", "a", "l", "l", "b", "a", "c", "k">>
EDP1 == <<"e", "D", "P", "-", "1">>
HDMI1 == <<"H", "D", "M", "I", "-", "1">>
EDP == <<"e", "D", "P">>

\* The descriptions a display may report.
Names == {EDP1, HDMI1}

\* config::Outputs
FilterAll == [kind |-> "All", targets |-> <<>>]
FilterActive == [kind |-> "Active", targets |-> <<>>]
FilterTargets(ts) == [kind |-> "Targets", targets |-> ts]

Filters == {FilterAll, FilterActive, FilterTargets(<<EDP>>)}

\* config::BarConfig, as far as the registry reads it
BarTopSolid == [position |-> "Top", appearance |-> <<"Solid">>]
BarTopIslands == [position |-> "Top", appearance |-> <<"Islands">>]
BarBottomSolid == [position |-> "Bottom", appearance |-> <<"Solid">>]

\* The lists Config::get_bar_configs may return.
BarConfigLists == {<<BarTopSolid>>, <<BarTopIslands>>, <<BarTopSolid, BarBottomSolid>>}

ScaleFactors == {1, 2}

\* menu::MenuType (a subset of the closed set) and position_button::ButtonUIRef
MenuTypes == {"Updates", "Settings", "Tray(bluez)"}
ButtonUIRefs == {1, 2}

\* The part of config::Config the handlers read.  Two universes of configurations:
\* the display and configuration handlers alone are explored over RegistryConfigs,
\* all handlers together over MenuConfigs.
RegistryConfigs == [bars : BarConfigLists, outputs : Filters,
                    scale_factor : ScaleFactors, enable_esc_key : {TRUE}]

MenuConfigs == [bars : {<<BarTopSolid>>, <<BarTopSolid, BarBottomSolid>>},
                outputs : {FilterAll, FilterTargets(<<EDP>>)},
                scale_factor : {1}, enable_esc_key : BOOLEAN]

\* The name of a display that reports no description (unwrap_or("")).
EmptyName == <<>>

\* Displays without a description: filters whose target lists are empty, hold the
\* empty string, or hold it beside a name.
EmptyNameFilters == {FilterAll, FilterActive, FilterTargets(<<>>), FilterTargets(<<EDP>>),
                     FilterTargets(<<EmptyName>>), FilterTargets(<<EDP, EmptyName>>)}

EmptyNameConfigs == [bars : {<<BarTopSolid>>}, outputs : EmptyNameFilters,
                     scale_factor : {1}, enable_esc_key : {TRUE}]

(***************************************************************************)
(* Vec helpers.                                                            *)
(***************************************************************************)
\* Vec::swap_remove: the element at i is replaced by the last one.
SwapRemove(s, i) ==
    IF i = Len(s) THEN SubSeq(s, 1, Len(s) - 1)
    ELSE [j \in 1..(Len(s) - 1) |-> IF j = i THEN s[Len(s)] ELSE s[j]]

\* Iterator::position over a set of matching indexes: the first, or 0 for None.
FirstIndex(idxs) == IF idxs = {} THEN 0 ELSE CHOOSE i \in idxs : \A j \in idxs : i <= j

\* str::contains
Contains(name, sub) ==
    \E i \in 0..(Len(name) - Len(sub)) : SubSeq(name, i + 1, i + Len(sub)) = sub

RECURSIVE Concat(_)
Concat(ss) == IF ss = <<>> THEN <<>> ELSE Head(ss) \o Concat(Tail(ss))

(***************************************************************************)
(* Requests to the compositor.                                             *)
(***************************************************************************)
get_layer_surface(id, height, zone, layer, output, anchor) ==
    [op |-> "get_layer_surface", id |-> id, height |-> height, exclusive_zone |-> zone,
     keyboard_interactivity |-> "None", layer |-> layer, output |-> output,
     anchor |-> anchor]

destroy_layer_surface(id) == [op |-> "destroy_layer_surface", id |-> id]

set_size(id, height) == [op |-> "set_size", id |-> id, height |-> height]

set_exclusive_zone(id, zone) == [op |-> "set_exclusive_zone", id |-> id, zone |-> zone]

set_keyboard_interactivity(id, mode) ==
    [op |-> "set_keyboard_interactivity", id |-> id, mode |-> mode]

(***************************************************************************)
(* Surface factory.                                                        *)
(***************************************************************************)
\* The style a bar is drawn with (lines 65-69); every bar configuration of the model
\* carries an appearance.
StyleOf(config) == config.appearance[1]

get_height(style, scale_factor) ==
    (HEIGHT - (IF style \in {"Solid", "Gradient"} THEN 8 ELSE 0)) * scale_factor

\* Menu::new
MenuNew(id) == [id |-> id, menu_info |-> <<>>]

ShellInfo(id, menu_id, config, scale_factor) ==
    [id |-> id, config |-> config, menu |-> MenuNew(menu_id), scale_factor |-> scale_factor]

\* create_output_layers whose menu surfaces reserve the bar's height.
create_output_layers_menu_zone(wl_output, bar_configs, scale_factor, n) ==
    LET height(i) == get_height(StyleOf(bar_configs[i]), scale_factor)
        bar_id(i) == n + 2 * (i - 1)
        menu_id(i) == n + 2 * (i - 1) + 1
        anchor(i) == IF bar_configs[i].position = "Top" THEN {"TOP", "LEFT", "RIGHT"}
                     ELSE {"BOTTOM", "LEFT", "RIGHT"}
    IN [infos |-> [i \in 1..Len(bar_configs) |->
                      ShellInfo(bar_id(i), menu_id(i), bar_configs[i], scale_factor)],
        tasks |-> Concat([i \in 1..Len(bar_configs) |->
                      << get_layer_surface(bar_id(i), height(i), height(i), "Bottom",
                                           wl_output, anchor(i)),
                         get_layer_surface(menu_id(i), 0, height(i), "Background",
                                           wl_output,
                                           {"TOP", "BOTTOM", "LEFT", "RIGHT"}) >>]),
        next |-> n + 2 * Len(bar_configs)]

\* The i-th bar configuration takes ids n + 2(i-1) (bar) and n + 2(i-1) + 1 (menu).
create_output_layers(wl_output, bar_configs, scale_factor, n) ==
    LET height(i) == get_height(StyleOf(bar_configs[i]), scale_factor)
        bar_id(i) == n + 2 * (i - 1)
        menu_id(i) == n + 2 * (i - 1) + 1
        anchor(i) == IF bar_configs[i].position = "Top" THEN {"TOP", "LEFT", "RIGHT"}
                     ELSE {"BOTTOM", "LEFT", "RIGHT"}
    IN [infos |-> [i \in 1..Len(bar_configs) |->
                      ShellInfo(bar_id(i), menu_id(i), bar_configs[i], scale_factor)],
        tasks |-> Concat([i \in 1..Len(bar_configs) |->
                      << get_layer_surface(bar_id(i), height(i), height(i), "Bottom",
                                           wl_output, anchor(i)),
                         get_layer_surface(menu_id(i), 0, 0, "Background", wl_output,
                                           {"TOP", "BOTTOM", "LEFT", "RIGHT"}) >>]),
        next |-> n + 2 * Len(bar_configs)]

name_in_config(name, outputs) ==
    CASE outputs.kind = "All" -> TRUE
      [] outputs.kind = "Active" -> FALSE
      [] OTHER -> \E i \in 1..Len(outputs.targets) : Contains(name, outputs.targets[i])

(***************************************************************************)
(* Output registry.  Each operation maps the registry vector `reg` and the *)
(* next free surface id `n` to [reg, tasks, next].                         *)
(***************************************************************************)
Entry(name, infos, wl_output) == [name |-> name, infos |-> infos, wl_output |-> wl_output]

\* DestroyTasks without the destroy request of the menu surface.
DestroyTasksBarOnly(infos) ==
    [i \in 1..Len(infos) |-> destroy_layer_surface(infos[i].id)]

\* DestroyTasks that leaves the menu surface of a pair with an open menu alive.
DestroyTasksKeepOpenMenu(infos) ==
    Concat([i \in 1..Len(infos) |->
              IF infos[i].menu.menu_info # <<>>
              THEN << destroy_layer_surface(infos[i].id) >>
              ELSE << destroy_layer_surface(infos[i].id),
                      destroy_layer_surface(infos[i].menu.id) >>])

DestroyTasks(infos) ==
    Concat([i \in 1..Len(infos) |->
              << destroy_layer_surface(infos[i].id),
                 destroy_layer_surface(infos[i].menu.id) >>])

OutputsNew(bar_configs, scale_factor, n) ==
    LET c == create_output_layers(<<>>, bar_configs, scale_factor, n)
    IN [reg |-> << Entry(Fallback, c.infos, <<>>) >>, tasks |-> c.tasks, next |-> c.next]

\* OutputsAdd without the removal of the fallback entry (lines 190-204).
OutputsAddKeepFallback(reg, n, bar_configs, request_outputs, name, wl_output, scale_factor) ==
    IF name_in_config(name, request_outputs)
    THEN LET c == create_output_layers(<<wl_output>>, bar_configs, scale_factor, n)
             index == FirstIndex({i \in 1..Len(reg) : reg[i].name = name})
             destroy_task == IF index > 0 THEN DestroyTasks(reg[index].infos) ELSE <<>>
             reg1 == IF index > 0 THEN SwapRemove(reg, index) ELSE reg
         IN [reg |-> Append(reg1, Entry(name, c.infos, <<wl_output>>)),
             tasks |-> destroy_task \o c.tasks,
             next |-> c.next]
    ELSE [reg |-> Append(reg, Entry(name, <<>>, <<wl_output>>)), tasks |-> <<>>, next |-> n]

\* OutputsAdd whose unmatched branch also drops the fallback entry.
OutputsAddUnmatchedDropsFallback(reg, n, bar_configs, request_outputs, name, wl_output, scale_factor) ==
    IF name_in_config(name, request_outputs)
    THEN LET c == create_output_layers(<<wl_output>>, bar_configs, scale_factor, n)
             index == FirstIndex({i \in 1..Len(reg) : reg[i].name = name})
             destroy_task == IF index > 0 THEN DestroyTasks(reg[index].infos) ELSE <<>>
             reg1 == IF index > 0 THEN SwapRemove(reg, index) ELSE reg
             reg2 == Append(reg1, Entry(name, c.infos, <<wl_output>>))
             fb == FirstIndex({i \in 1..Len(reg2) : reg2[i].wl_output = <<>>})
             destroy_fallback_task == IF fb > 0 THEN DestroyTasks(reg2[fb].infos) ELSE <<>>
             reg3 == IF fb > 0 THEN SwapRemove(reg2, fb) ELSE reg2
         IN [reg |-> reg3,
             tasks |-> destroy_task \o destroy_fallback_task \o c.tasks,
             next |-> c.next]
    ELSE LET reg2 == Append(reg, Entry(name, <<>>, <<wl_output>>))
             fb == FirstIndex({i \in 1..Len(reg2) : reg2[i].wl_output = <<>>})
         IN [reg |-> IF fb > 0 THEN SwapRemove(reg2, fb) ELSE reg2,
             tasks |-> IF fb > 0 THEN DestroyTasks(reg2[fb].infos) ELSE <<>>,
             next |-> n]

OutputsAdd(reg, n, bar_configs, request_outputs, name, wl_output, scale_factor) ==
    IF name_in_config(name, request_outputs)
    THEN LET c == create_output_layers(<<wl_output>>, bar_configs, scale_factor, n)
             index == FirstIndex({i \in 1..Len(reg) : reg[i].name = name})
             destroy_task == IF index > 0 THEN DestroyTasks(reg[index].infos) ELSE <<>>
             reg1 == IF index > 0 THEN SwapRemove(reg, index) ELSE reg
             reg2 == Append(reg1, Entry(name, c.infos, <<wl_output>>))
             fb == FirstIndex({i \in 1..Len(reg2) : reg2[i].wl_output = <<>>})
             destroy_fallback_task == IF fb > 0 THEN DestroyTasks(reg2[fb].infos) ELSE <<>>
             reg3 == IF fb > 0 THEN SwapRemove(reg2, fb) ELSE reg2
         IN [reg |-> reg3,
             tasks |-> destroy_task \o destroy_fallback_task \o c.tasks,
             next |-> c.next]
    ELSE [reg |-> Append(reg, Entry(name, <<>>, <<wl_output>>)), tasks |-> <<>>, next |-> n]

\* OutputsRemove without the creation of the fallback entry (lines 241-249).
OutputsRemoveNoFallback(reg, n, bar_configs, wl_output, scale_factor) ==
    LET index_to_remove == FirstIndex({i \in 1..Len(reg) : reg[i].wl_output = <<wl_output>>})
    IN IF index_to_remove > 0
       THEN LET old == reg[index_to_remove]
            IN [reg |-> Append(SwapRemove(reg, index_to_remove),
                               Entry(old.name, <<>>, old.wl_output)),
                tasks |-> DestroyTasks(old.infos), next |-> n]
       ELSE [reg |-> reg, tasks |-> <<>>, next |-> n]

\* OutputsRemove that forgets the entry of the removed display.
OutputsRemoveDropsEntry(reg, n, bar_configs, wl_output, scale_factor) ==
    LET index_to_remove == FirstIndex({i \in 1..Len(reg) : reg[i].wl_output = <<wl_output>>})
    IN IF index_to_remove > 0
       THEN LET old == reg[index_to_remove]
                destroy_task == DestroyTasks(old.infos)
                reg1 == SwapRemove(reg, index_to_remove)
            IN IF \E i \in 1..Len(reg1) : reg1[i].infos # <<>>
               THEN [reg |-> reg1, tasks |-> destroy_task, next |-> n]
               ELSE LET c == create_output_layers(<<>>, bar_configs, scale_factor, n)
                    IN [reg |-> Append(reg1, Entry(Fallback, c.infos, <<>>)),
                        tasks |-> destroy_task \o c.tasks,
                        next |-> c.next]
       ELSE [reg |-> reg, tasks |-> <<>>, next |-> n]

\* OutputsRemove that pushes an entry without pairs when no entry holds the handle.
OutputsRemoveUnownedFallback(reg, n, bar_configs, wl_output, scale_factor) ==
    LET index_to_remove == FirstIndex({i \in 1..Len(reg) : reg[i].wl_output = <<wl_output>>})
    IN IF index_to_remove > 0
       THEN LET old == reg[index_to_remove]
                destroy_task == DestroyTasks(old.infos)
                reg1 == Append(SwapRemove(reg, index_to_remove),
                               Entry(old.name, <<>>, old.wl_output))
            IN IF \E i \in 1..Len(reg1) : reg1[i].infos # <<>>
               THEN [reg |-> reg1, tasks |-> destroy_task, next |-> n]
               ELSE LET c == create_output_layers(<<>>, bar_configs, scale_factor, n)
                    IN [reg |-> Append(reg1, Entry(Fallback, c.infos, <<>>)),
                        tasks |-> destroy_task \o c.tasks,
                        next |-> c.next]
       ELSE [reg |-> Append(reg, Entry(Fallback, <<>>, <<>>)), tasks |-> <<>>, next |-> n]

\* OutputsRemove that counts only the pairs of displays when it looks for a bar.
OutputsRemoveFallbackAgain(reg, n, bar_configs, wl_output, scale_factor) ==
    LET index_to_remove == FirstIndex({i \in 1..Len(reg) : reg[i].wl_output = <<wl_output>>})
    IN IF index_to_remove > 0
       THEN LET old == reg[index_to_remove]
                destroy_task == DestroyTasks(old.infos)
                reg1 == Append(SwapRemove(reg, index_to_remove),
                               Entry(old.name, <<>>, old.wl_output))
            IN IF \E i \in 1..Len(reg1) : reg1[i].wl_output # <<>> /\ reg1[i].infos # <<>>
               THEN [reg |-> reg1, tasks |-> destroy_task, next |-> n]
               ELSE LET c == create_output_layers(<<>>, bar_configs, scale_factor, n)
                    IN [reg |-> Append(reg1, Entry(Fallback, c.infos, <<>>)),
                        tasks |-> destroy_task \o c.tasks,
                        next |-> c.next]
       ELSE [reg |-> reg, tasks |-> <<>>, next |-> n]

OutputsRemove(reg, n, bar_configs, wl_output, scale_factor) ==
    LET index_to_remove == FirstIndex({i \in 1..Len(reg) : reg[i].wl_output = <<wl_output>>})
    IN IF index_to_remove > 0
       THEN LET old == reg[index_to_remove]
                destroy_task == DestroyTasks(old.infos)
                reg1 == Append(SwapRemove(reg, index_to_remove),
                               Entry(old.name, <<>>, old.wl_output))
            IN IF \E i \in 1..Len(reg1) : reg1[i].infos # <<>>
               THEN [reg |-> reg1, tasks |-> destroy_task, next |-> n]
               ELSE LET c == create_output_layers(<<>>, bar_configs, scale_factor, n)
                    IN [reg |-> Append(reg1, Entry(Fallback, c.infos, <<>>)),
                        tasks |-> destroy_task \o c.tasks,
                        next |-> c.next]
       ELSE [reg |-> reg, tasks |-> <<>>, next |-> n]


\* The loop over to_add of sync (lines 292-302): entries without a handle are skipped.
RECURSIVE SyncAdd(_, _, _, _, _)
SyncAdd(st, to_add, bar_configs, request_outputs, scale_factor) ==
    IF to_add = <<>> THEN st
    ELSE LET h == Head(to_add)
             r == IF h.wl_output # <<>>
                  THEN OutputsAdd(st.reg, st.next, bar_configs, request_outputs, h.name,
                                  h.wl_output[1], scale_factor)
                  ELSE [reg |-> st.reg, tasks |-> <<>>, next |-> st.next]
         IN SyncAdd([reg |-> r.reg, tasks |-> st.tasks \o r.tasks, next |-> r.next],
                    Tail(to_add), bar_configs, request_outputs, scale_factor)

\* The loop over to_remove of sync (lines 304-306).
RECURSIVE SyncRemove(_, _, _, _)
SyncRemove(st, to_remove, bar_configs, scale_factor) ==
    IF to_remove = <<>> THEN st
    ELSE LET r == OutputsRemove(st.reg, st.next, bar_configs, Head(to_remove), scale_factor)
         IN SyncRemove([reg |-> r.reg, tasks |-> st.tasks \o r.tasks, next |-> r.next],
                       Tail(to_remove), bar_configs, scale_factor)

\* Does sync rewrite the pair at index i of an entry (line 319)?
SyncChanged(info, i, bar_configs, scale_factor) ==
    /\ i <= Len(bar_configs)
    /\ (info.config # bar_configs[i] \/ info.scale_factor # scale_factor)

\* The in-place pass of sync over the existing bars (lines 309-334).
SyncUpdate(reg, bar_configs, scale_factor) ==
    LET upd(info, i) ==
            IF SyncChanged(info, i, bar_configs, scale_factor)
            THEN [info EXCEPT !.config = bar_configs[i], !.scale_factor = scale_factor]
            ELSE info
        req(info, i) ==
            IF SyncChanged(info, i, bar_configs, scale_factor)
            THEN LET height == get_height(StyleOf(bar_configs[i]), scale_factor)
                 IN << set_size(info.id, height), set_exclusive_zone(info.id, height) >>
            ELSE <<>>
    IN [reg |-> [e \in 1..Len(reg) |->
                    [reg[e] EXCEPT !.infos =
                        [i \in 1..Len(reg[e].infos) |-> upd(reg[e].infos[i], i)]]],
        tasks |-> Concat([e \in 1..Len(reg) |->
                    Concat([i \in 1..Len(reg[e].infos) |-> req(reg[e].infos[i], i)])])]

OutputsSync(reg, n, bar_configs, request_outputs, scale_factor) ==
    LET gone(e) == ~name_in_config(e.name, request_outputs) /\ e.infos # <<>>
        back(e) == name_in_config(e.name, request_outputs) /\ e.infos = <<>>
        removed == SelectSeq(reg, LAMBDA e : gone(e) /\ e.wl_output # <<>>)
        to_remove == [i \in 1..Len(removed) |-> removed[i].wl_output[1]]
        to_add == SelectSeq(reg, back)
        st1 == SyncAdd([reg |-> reg, tasks |-> <<>>, next |-> n], to_add, bar_configs,
                       request_outputs, scale_factor)
        st2 == SyncRemove(st1, to_remove, bar_configs, scale_factor)
        u == SyncUpdate(st2.reg, bar_configs, scale_factor)
    IN [reg |-> u.reg, tasks |-> st2.tasks \o u.tasks, next |-> st2.next]

menu_is_open(reg) ==
    \E e \in 1..Len(reg) : \E i \in 1..Len(reg[e].infos) :
        reg[e].infos[i].menu.menu_info # <<>>

(***************************************************************************)
(* Menu (one per Surface Pair): Closed is menu_info = <<>>, Open(kind,     *)
(* anchor) is menu_info = << <<kind, anchor>> >>.  Each operation yields   *)
(* [menu, tasks].                                                          *)
(***************************************************************************)
MenuClose(menu) ==
    IF menu.menu_info # <<>>
    THEN [menu |-> [menu EXCEPT !.menu_info = <<>>],
          tasks |-> << [op |-> "hide_menu", id |-> menu.id] >>]
    ELSE [menu |-> menu, tasks |-> <<>>]

MenuToggle(menu, menu_type, button_ui_ref, request_keyboard) ==
    IF menu.menu_info # <<>> /\ menu.menu_info[1][1] = menu_type
    THEN MenuClose(menu)
    ELSE [menu |-> [menu EXCEPT !.menu_info = << <<menu_type, button_ui_ref>> >>],
          tasks |-> << [op |-> "show_menu", id |-> menu.id] >>]

MenuCloseIf(menu, menu_type) ==
    IF menu.menu_info # <<>> /\ menu.menu_info[1][1] = menu_type
    THEN MenuClose(menu)
    ELSE [menu |-> menu, tasks |-> <<>>]

(***************************************************************************)
(* Menu operations of the registry.                                        *)
(***************************************************************************)
IsTarget(info, id) == info.id = id \/ info.menu.id = id

\* Every pair, in registry order.
AllInfos(reg) == Concat([e \in 1..Len(reg) |-> reg[e].infos])

\* has that takes every surface of a pair for its bar surface.
has_always_main(reg, id) ==
    LET hits == SelectSeq(AllInfos(reg), LAMBDA info : IsTarget(info, id))
    IN IF hits = <<>> THEN [role |-> "None"]
       ELSE [role |-> "Main", info |-> hits[1]]

\* Outputs::has: the role of a surface id, found in the first pair that owns it.
has(reg, id) ==
    LET hits == SelectSeq(AllInfos(reg), LAMBDA info : IsTarget(info, id))
    IN IF hits = <<>> THEN [role |-> "None"]
       ELSE IF hits[1].id = id THEN [role |-> "Main", info |-> hits[1]]
       ELSE [role |-> "Menu", menu_info |-> hits[1].menu.menu_info]

\* The number of pairs in the entries before entry e.
RECURSIVE Offset(_, _)
Offset(reg, e) == IF e = 1 THEN 0 ELSE Offset(reg, e - 1) + Len(reg[e - 1].infos)

\* The loop over the pairs of a menu operation: steps[k] = [menu, tasks] is what the
\* operation did to the k-th pair of AllInfos(reg).
WithMenus(reg, steps) ==
    [reg |-> [e \in 1..Len(reg) |->
                 [reg[e] EXCEPT !.infos =
                     [i \in 1..Len(reg[e].infos) |->
                         [reg[e].infos[i] EXCEPT !.menu = steps[Offset(reg, e) + i].menu]]]],
     tasks |-> Concat([k \in 1..Len(steps) |-> steps[k].tasks])]

\* A pair the operation leaves alone.
Untouched(info) == [menu |-> info.menu, tasks |-> <<>>]

\* The bar ids of every pair, in registry order.
BarIds(reg) == LET infos == AllInfos(reg) IN [i \in 1..Len(infos) |-> infos[i].id]

\* target_id of toggle_menu: the bar id of the last pair that owns id, or None.
TargetId(reg, id) ==
    LET hits == SelectSeq(AllInfos(reg), LAMBDA info : IsTarget(info, id))
    IN IF hits = <<>> THEN <<>> ELSE << hits[Len(hits)].id >>

\* The keyboard request toggle_menu appends to the batch `t` (lines 385-403).
ToggleKeyboard(reg_after, t, target_id, request_keyboard) ==
    IF request_keyboard /\ target_id # <<>>
    THEN IF menu_is_open(reg_after)
         THEN Append(t, set_keyboard_interactivity(target_id[1], "OnDemand"))
         ELSE Append(t, set_keyboard_interactivity(target_id[1], "None"))
    ELSE t

\* What toggle_menu does to each pair (lines 368-381).
ToggleSteps(reg, id, menu_type, button_ui_ref, request_keyboard) ==
    LET infos == AllInfos(reg)
    IN [k \in 1..Len(infos) |->
           IF IsTarget(infos[k], id)
           THEN MenuToggle(infos[k].menu, menu_type, button_ui_ref, request_keyboard)
           ELSE MenuClose(infos[k].menu)]

\* The registry inside toggle_menu's loop, after the first k pairs have been visited
\* (lines 368-381).
ToggleAfter(reg, id, menu_type, button_ui_ref, request_keyboard, k) ==
    LET infos == AllInfos(reg)
        steps == ToggleSteps(reg, id, menu_type, button_ui_ref, request_keyboard)
    IN WithMenus(reg, [j \in 1..Len(infos) |->
                          IF j <= k THEN steps[j] ELSE Untouched(infos[j])])

\* toggle_menu that leaves the pairs other than the target as they are.
toggle_menu_keep_others(reg, id, menu_type, button_ui_ref, request_keyboard) ==
    LET infos == AllInfos(reg)
        m == WithMenus(reg, [k \in 1..Len(infos) |->
                 IF IsTarget(infos[k], id)
                 THEN MenuToggle(infos[k].menu, menu_type, button_ui_ref, request_keyboard)
                 ELSE Untouched(infos[k])])
    IN [reg |-> m.reg,
        tasks |-> ToggleKeyboard(m.reg, m.tasks, TargetId(reg, id), request_keyboard)]

\* toggle_menu that toggles the open pairs other than the target instead of closing
\* them.
toggle_menu_toggle_others(reg, id, menu_type, button_ui_ref, request_keyboard) ==
    LET infos == AllInfos(reg)
        m == WithMenus(reg, [k \in 1..Len(infos) |->
                 IF IsTarget(infos[k], id) \/ infos[k].menu.menu_info # <<>>
                 THEN MenuToggle(infos[k].menu, menu_type, button_ui_ref, request_keyboard)
                 ELSE Untouched(infos[k])])
    IN [reg |-> m.reg,
        tasks |-> ToggleKeyboard(m.reg, m.tasks, TargetId(reg, id), request_keyboard)]

\* toggle_menu that grants the keyboard whatever the resulting menu state.
toggle_menu_always_grant(reg, id, menu_type, button_ui_ref, request_keyboard) ==
    LET m == WithMenus(reg, ToggleSteps(reg, id, menu_type, button_ui_ref,
                                        request_keyboard))
        target_id == TargetId(reg, id)
    IN [reg |-> m.reg,
        tasks |-> IF request_keyboard /\ target_id # <<>>
                  THEN Append(m.tasks, set_keyboard_interactivity(target_id[1], "OnDemand"))
                  ELSE m.tasks]

\* toggle_menu that addresses the keyboard request to the id it was called with.
toggle_menu_keyboard_to_id(reg, id, menu_type, button_ui_ref, request_keyboard) ==
    LET m == WithMenus(reg, ToggleSteps(reg, id, menu_type, button_ui_ref,
                                        request_keyboard))
    IN [reg |-> m.reg,
        tasks |-> ToggleKeyboard(m.reg, m.tasks,
                                 IF TargetId(reg, id) # <<>> THEN <<id>> ELSE <<>>,
                                 request_keyboard)]

\* toggle_menu that also releases the keyboard of every other pair it closes.
toggle_menu_release_closed(reg, id, menu_type, button_ui_ref, request_keyboard) ==
    LET infos == AllInfos(reg)
        m == WithMenus(reg, ToggleSteps(reg, id, menu_type, button_ui_ref,
                                        request_keyboard))
        closed == SelectSeq(infos, LAMBDA info : ~IsTarget(info, id)
                                                 /\ info.menu.menu_info # <<>>)
        released == [i \in 1..Len(closed) |-> set_keyboard_interactivity(closed[i].id, "None")]
    IN [reg |-> m.reg,
        tasks |-> ToggleKeyboard(m.reg, m.tasks \o released, TargetId(reg, id),
                                 request_keyboard)]

\* toggle_menu that revokes the keyboard of the id it was called with when no pair
\* owns it.
toggle_menu_revoke_unowned(reg, id, menu_type, button_ui_ref, request_keyboard) ==
    LET m == WithMenus(reg, ToggleSteps(reg, id, menu_type, button_ui_ref,
                                        request_keyboard))
        target_id == TargetId(reg, id)
    IN [reg |-> m.reg,
        tasks |-> IF request_keyboard /\ target_id = <<>>
                  THEN Append(m.tasks, set_keyboard_interactivity(id, "None"))
                  ELSE ToggleKeyboard(m.reg, m.tasks, target_id, request_keyboard)]

toggle_menu(reg, id, menu_type, button_ui_ref, request_keyboard) ==
    LET m == WithMenus(reg, ToggleSteps(reg, id, menu_type, button_ui_ref,
                                        request_keyboard))
    IN [reg |-> m.reg,
        tasks |-> ToggleKeyboard(m.reg, m.tasks, TargetId(reg, id), request_keyboard)]

\* `task` of close_menu and close_menu_if: each matching pair overwrites it, so it is
\* the batch of the last pair that owns id.
LastTask(reg, id, steps) ==
    LET hits == {k \in 1..Len(steps) : IsTarget(AllInfos(reg)[k], id)}
    IN IF hits = {} THEN <<>>
       ELSE steps[CHOOSE k \in hits : \A j \in hits : j <= k].tasks

\* close_menu that revokes the keyboard whether or not escape-key handling is on.
close_menu_revoke_without_esc(reg, id, esc_button_enabled) ==
    LET infos == AllInfos(reg)
        steps == [k \in 1..Len(infos) |->
                     IF IsTarget(infos[k], id) THEN MenuClose(infos[k].menu)
                     ELSE Untouched(infos[k])]
        m == WithMenus(reg, steps)
        task == LastTask(reg, id, steps)
    IN [reg |-> m.reg,
        tasks |-> IF ~menu_is_open(m.reg)
                  THEN Append(task, set_keyboard_interactivity(id, "None"))
                  ELSE task]

close_menu(reg, id, esc_button_enabled) ==
    LET infos == AllInfos(reg)
        steps == [k \in 1..Len(infos) |->
                     IF IsTarget(infos[k], id) THEN MenuClose(infos[k].menu)
                     ELSE Untouched(infos[k])]
        m == WithMenus(reg, steps)
        task == LastTask(reg, id, steps)
    IN [reg |-> m.reg,
        tasks |-> IF esc_button_enabled /\ ~menu_is_open(m.reg)
                  THEN Append(task, set_keyboard_interactivity(id, "None"))
                  ELSE task]

close_menu_if(reg, id, menu_type, esc_button_enabled) ==
    LET infos == AllInfos(reg)
        steps == [k \in 1..Len(infos) |->
                     IF IsTarget(infos[k], id) THEN MenuCloseIf(infos[k].menu, menu_type)
                     ELSE Untouched(infos[k])]
        m == WithMenus(reg, steps)
        task == LastTask(reg, id, steps)
    IN [reg |-> m.reg,
        tasks |-> IF esc_button_enabled /\ ~menu_is_open(m.reg)
                  THEN Append(task, set_keyboard_interactivity(id, "None"))
                  ELSE task]

\* The keyboard_tasks of close_all_menus and close_all_menu_if: a revoke per bar.
RevokeAll(reg) ==
    LET ids == BarIds(reg)
    IN [i \in 1..Len(ids) |-> set_keyboard_interactivity(ids[i], "None")]

\* close_all_menu_if that closes the open menus of every kind.
close_all_menu_if_any_kind(reg, menu_type, esc_button_enabled) ==
    LET infos == AllInfos(reg)
        m == WithMenus(reg, [k \in 1..Len(infos) |-> MenuClose(infos[k].menu)])
    IN [reg |-> m.reg,
        tasks |-> IF esc_button_enabled /\ ~menu_is_open(m.reg)
                  THEN m.tasks \o RevokeAll(m.reg)
                  ELSE m.tasks]

close_all_menu_if(reg, menu_type, esc_button_enabled) ==
    LET infos == AllInfos(reg)
        m == WithMenus(reg, [k \in 1..Len(infos) |-> MenuCloseIf(infos[k].menu, menu_type)])
    IN [reg |-> m.reg,
        tasks |-> IF esc_button_enabled /\ ~menu_is_open(m.reg)
                  THEN m.tasks \o RevokeAll(m.reg)
                  ELSE m.tasks]

close_all_menus(reg, esc_button_enabled) ==
    LET infos == AllInfos(reg)
        m == WithMenus(reg, [k \in 1..Len(infos) |->
                 IF infos[k].menu.menu_info # <<>> THEN MenuClose(infos[k].menu)
                 ELSE Untouched(infos[k])])
    IN [reg |-> m.reg,
        tasks |-> IF esc_button_enabled /\ ~menu_is_open(m.reg)
                  THEN m.tasks \o RevokeAll(m.reg)
                  ELSE m.tasks]

(***************************************************************************)
(* The compositor's side of the requests: the surfaces that were created   *)
(* and not destroyed since.                                                *)
(***************************************************************************)
RECURSIVE LiveAfter(_, _)
LiveAfter(alive, reqs) ==
    IF reqs = <<>> THEN alive
    ELSE LET r == Head(reqs)
         IN LiveAfter(CASE r.op = "get_layer_surface" -> alive \cup {r.id}
                        [] r.op = "destroy_layer_surface" -> alive \ {r.id}
                        [] OTHER -> alive,
                      Tail(reqs))

(***************************************************************************)
(* The system information modules (modules/system_info_components).  The   *)
(* modules share one SystemInfoService behind Arc<Mutex<..>>.  Mutex::lock  *)
(* waits while another owner of the Arc holds the mutex and returns Err    *)
(* when a holder panicked (the mutex is poisoned).                         *)
(***************************************************************************)
\* The sensor name of the temperature module; the model writes "Tctl" for the
\* default "k10temp Tctl".
SENSOR == <<"T", "c", "t", "l">>

\* The labels of the machine's components.
Tctl == <<"k", "T", "c", "t", "l">>
Acpitz == <<"a", "c", "p", "i">>

\* A component reading: Option<f32>, a float being finite or not.
Reading(finite, value) == <<[finite |-> finite, value |-> value]>>

Component(label, temperature) == [label |-> label, temperature |-> temperature]

\* What sysinfo reports at one refresh: the global CPU usage (floored), the
\* frequency of each CPU and the components.
Samples ==
    [usage : {0, 42, 95},
     frequencies : {<<>>, <<800, 2400>>},
     components : {<<>>,
                   <<Component(Tctl, Reading(TRUE, 45))>>,
                   <<Component(Acpitz, Reading(TRUE, 30)), Component(Tctl, Reading(TRUE, 71))>>,
                   <<Component(Tctl, Reading(TRUE, 0))>>,
                   <<Component(Tctl, Reading(FALSE, 0))>>,
                   <<Component(Tctl, <<>>)>>}]

QuietSample == [usage |-> 0, frequencies |-> <<>>, components |-> <<>>]

CpuData(usage, avg_frequency, min_frequency, max_frequency) ==
    [usage |-> usage, avg_frequency |-> avg_frequency, min_frequency |-> min_frequency,
     max_frequency |-> max_frequency]

TemperatureData(temperature, sensor) == [temperature |-> temperature, sensor |-> sensor]

RECURSIVE Sum(_)
Sum(s) == IF s = <<>> THEN 0 ELSE Head(s) + Sum(Tail(s))

\* Iterator::min and Iterator::max with unwrap_or(0)
MinOr0(s) == IF s = <<>> THEN 0 ELSE CHOOSE x \in {s[i] : i \in 1..Len(s)} :
                                         \A i \in 1..Len(s) : x <= s[i]
MaxOr0(s) == IF s = <<>> THEN 0 ELSE CHOOSE x \in {s[i] : i \in 1..Len(s)} :
                                         \A i \in 1..Len(s) : x >= s[i]

\* SystemInfoService::collect_data
collect_data(sample, temperature_sensor) ==
    LET cpu_frequencies == sample.frequencies
        avg_frequency == IF cpu_frequencies = <<>> THEN 0
                         ELSE Sum(cpu_frequencies) \div Len(cpu_frequencies)
        found == FirstIndex({i \in 1..Len(sample.components) :
                                Contains(sample.components[i].label, temperature_sensor)})
        temperature ==
            IF found = 0 THEN <<>>
            ELSE LET temp == sample.components[found].temperature
                 IN IF temp # <<>> /\ temp[1].finite /\ temp[1].value > 0
                    THEN <<temp[1].value>> ELSE <<>>
    IN [cpu |-> CpuData(sample.usage, avg_frequency, MinOr0(cpu_frequencies),
                        MaxOr0(cpu_frequencies)),
        temperature |-> TemperatureData(temperature, temperature_sensor)]

\* SystemInfoService::new
SystemInfoServiceNew(sample, temperature_sensor) ==
    [data |-> collect_data(sample, temperature_sensor)]

\* SystemInfoService::update
SystemInfoServiceUpdate(s, sample) ==
    [s EXCEPT !.data = collect_data(sample, s.data.temperature.sensor)]

\* The default thresholds of both modules.
WARN_THRESHOLD == 60
ALERT_THRESHOLD == 80

\* The text colour of an element by its value.
TextColor(value) ==
    IF value > WARN_THRESHOLD /\ value < ALERT_THRESHOLD THEN <<"danger.weak">>
    ELSE IF value >= ALERT_THRESHOLD THEN <<"danger">>
    ELSE <<>>

\* CpuModule::format_display_text with CpuMetrics::Usage
cpu_format_display_text(cpu_data) == <<cpu_data.usage, "%">>

\* TemperatureModule::format_display_text
temperature_format_display_text(temperature_data) ==
    IF temperature_data.temperature # <<>>
    THEN <<temperature_data.temperature[1], "C">>
    ELSE <<"N/A">>

\* What CpuModule::view renders from the data it obtained.
CpuElement(cpu_data) ==
    [module |-> "cpu", data |-> cpu_data, text |-> cpu_format_display_text(cpu_data),
     text_color |-> TextColor(cpu_data.usage)]

\* What TemperatureModule::view renders from the data it obtained.
TemperatureElement(temperature_data) ==
    [module |-> "temperature", data |-> temperature_data,
     text |-> temperature_format_display_text(temperature_data),
     text_color |-> IF temperature_data.temperature # <<>>
                    THEN TextColor(temperature_data.temperature[1]) ELSE <<>>]

\* The part of a handler after self.service.lock() has returned: Ok with the guard,
\* or Err when the mutex is poisoned.  m is the mutex as lock() found it.
AfterLock(handler, s, m, sample) ==
    CASE handler \in {"CpuModule::update", "TemperatureModule::update"} ->
             [service |-> IF m.poisoned THEN s ELSE SystemInfoServiceUpdate(s, sample),
              frame |-> <<>>]
      [] handler = "CpuModule::view" ->
             [service |-> s,
              frame |-> <<CpuElement(IF m.poisoned THEN CpuData(0, 0, 0, 0)
                                     ELSE s.data.cpu)>>]
      [] handler = "TemperatureModule::view" ->
             [service |-> s,
              frame |-> <<TemperatureElement(IF m.poisoned
                                             THEN TemperatureData(<<>>, SENSOR)
                                             ELSE s.data.temperature)>>]

Handlers ==
    {"CpuModule::update", "TemperatureModule::update", "CpuModule::view",
     "TemperatureModule::view"}

(***************************************************************************)
(* State.  The request batch a handler returns is not kept: its effect on  *)
(* the compositor is (live), and the properties about a batch evaluate the *)
(* operation that returned it.                                             *)
(***************************************************************************)
VARIABLES
    outputs,    \* App::outputs, the registry vector Outputs.0
    next_id,    \* the next value of Id::unique()
    config,     \* App::general_config and the theme's scale factor
    attached,   \* the display handles the compositor has announced and not removed
    described,  \* the name each attached display was announced with
    live,       \* the surfaces alive in the compositor
    service,    \* the SystemInfoService behind the shared mutex
    mutex,      \* the mutex of SharedSystemInfoService
    ui,         \* where the thread that runs the modules' handlers stands
    frame       \* what the last view call rendered

vars == <<outputs, next_id, config, attached, described, live, service, mutex, ui, frame>>

\* The state of the system information modules.
system_info_vars == <<service, mutex, ui, frame>>

\* The state of the registry.
registry_vars == <<outputs, next_id, config, attached, described, live>>

\* The surface ids handed out so far.
UsedIds == 1..(next_id - 1)

\* SystemInfoService::new behind a new mutex, over a universe of system readings
SystemInfoInit(samples) ==
    /\ \E sample \in samples : service = SystemInfoServiceNew(sample, SENSOR)
    /\ mutex = [locked |-> FALSE, poisoned |-> FALSE]
    /\ ui = "idle"
    /\ frame = <<>>

\* App::new over a universe of configurations
InitOver(configs) ==
    /\ SystemInfoInit({QuietSample})
    /\ config \in configs
    /\ LET r == OutputsNew(config.bars, config.scale_factor, 1)
       IN /\ outputs = r.reg
          /\ next_id = r.next
          /\ live = LiveAfter({}, r.tasks)
    /\ attached = {}
    /\ described = [h \in {} |-> EmptyName]

\* The registry and the compositor after a registry operation that returned r.
Becomes(r) ==
    /\ r.next <= MaxIds + 1
    /\ Len(r.reg) <= MaxEntries
    /\ outputs' = r.reg
    /\ next_id' = r.next
    /\ live' = LiveAfter(live, r.tasks)
    /\ UNCHANGED system_info_vars

\* A menu operation allocates no id.
MenuBecomes(r) ==
    /\ Becomes([reg |-> r.reg, tasks |-> r.tasks, next |-> next_id])
    /\ UNCHANGED <<config, attached, described>>

\* The call of OutputEvent::Created (lines 385-391) under the configuration cfg.
output_created(reg, n, cfg, name, wl_output) ==
    OutputsAdd(reg, n, cfg.bars, cfg.outputs, name, wl_output, cfg.scale_factor)

\* The call of OutputEvent::Removed (lines 395-399) under the configuration cfg.
output_removed(reg, n, cfg, wl_output) ==
    OutputsRemove(reg, n, cfg.bars, wl_output, cfg.scale_factor)

\* Message::OutputEvent, OutputEvent::Created
OutputCreated(wl_output, name) ==
    /\ wl_output \notin attached
    /\ attached' = attached \cup {wl_output}
    /\ described' = [h \in attached' |-> IF h = wl_output THEN name ELSE described[h]]
    /\ Becomes(output_created(outputs, next_id, config, name, wl_output))
    /\ UNCHANGED config

\* Message::OutputEvent, OutputEvent::Removed
OutputRemoved(wl_output) ==
    /\ wl_output \in attached
    /\ attached' = attached \ {wl_output}
    /\ described' = [h \in attached' |-> described[h]]
    /\ Becomes(output_removed(outputs, next_id, config, wl_output))
    /\ UNCHANGED config

\* SyncNeeded that does not look at the scale factor.
SyncNeededIgnoresScale(old, new, theme_changed) ==
    \/ old.outputs # new.outputs
    \/ old.bars # new.bars
    \/ theme_changed

\* Do the registry's inputs differ between two configurations (lines 222-226)?
\* theme_changed: the position or the style differs from the theme's.
SyncNeeded(old, new, theme_changed) ==
    \/ old.outputs # new.outputs
    \/ old.bars # new.bars
    \/ theme_changed
    \/ old.scale_factor # new.scale_factor

\* The handler of Message::ConfigChanged (lines 215-240): the registry, the batch and
\* the configuration App holds afterwards (refesh_config).
config_changed(reg, n, old, new, theme_changed) ==
    LET r == IF SyncNeeded(old, new, theme_changed)
             THEN OutputsSync(reg, n, new.bars, new.outputs, new.scale_factor)
             ELSE [reg |-> reg, tasks |-> <<>>, next |-> n]
    IN [reg |-> r.reg, tasks |-> r.tasks, next |-> r.next, config |-> new]

\* Message::ConfigChanged
ConfigChanged(new, theme_changed) ==
    LET r == config_changed(outputs, next_id, config, new, theme_changed)
    IN /\ Becomes(r)
       /\ config' = r.config
       /\ UNCHANGED <<attached, described>>

\* Message::ToggleMenu and tray::Action::ToggleMenu
ToggleMenu(menu_type, id, button_ui_ref) ==
    MenuBecomes(toggle_menu(outputs, id, menu_type, button_ui_ref, config.enable_esc_key))

\* Message::CloseMenu and settings::Action::CloseMenu
CloseMenu(id) ==
    MenuBecomes(close_menu(outputs, id, config.enable_esc_key))

\* updates::Action::CloseMenu
UpdatesCloseMenu(id) ==
    MenuBecomes(close_menu_if(outputs, id, "Updates", config.enable_esc_key))

\* tray::Action::TrayMenuCommand
TrayMenuCommand ==
    MenuBecomes(close_all_menus(outputs, config.enable_esc_key))

\* tray::Action::CloseTrayMenu
CloseTrayMenu(name) ==
    MenuBecomes(close_all_menu_if(outputs, name, config.enable_esc_key))

\* Message::CloseAllMenus
CloseAllMenus ==
    IF menu_is_open(outputs)
    THEN MenuBecomes(close_all_menus(outputs, config.enable_esc_key))
    ELSE MenuBecomes([reg |-> outputs, tasks |-> <<>>])

\* The display and configuration handlers.
NextRegistry ==
    \/ \E wl_output \in Handles, name \in Names : OutputCreated(wl_output, name)
    \/ \E wl_output \in Handles : OutputRemoved(wl_output)
    \/ \E new \in RegistryConfigs, theme_changed \in BOOLEAN :
          ConfigChanged(new, theme_changed)

\* All handlers.
Next ==
    \/ \E wl_output \in Handles, name \in Names : OutputCreated(wl_output, name)
    \/ \E wl_output \in Handles : OutputRemoved(wl_output)
    \/ \E new \in MenuConfigs, theme_changed \in BOOLEAN : ConfigChanged(new, theme_changed)
    \/ \E menu_type \in MenuTypes, id \in UsedIds, button_ui_ref \in ButtonUIRefs :
          ToggleMenu(menu_type, id, button_ui_ref)
    \/ \E id \in UsedIds : CloseMenu(id)
    \/ \E id \in UsedIds : UpdatesCloseMenu(id)
    \/ TrayMenuCommand
    \/ \E name \in {"Tray(bluez)"} : CloseTrayMenu(name)
    \/ CloseAllMenus

\* The display and configuration handlers, with displays that report no description.
NextEmptyName ==
    \/ \E wl_output \in Handles, name \in {EmptyName, EDP1} : OutputCreated(wl_output, name)
    \/ \E wl_output \in Handles : OutputRemoved(wl_output)
    \/ \E new \in EmptyNameConfigs, theme_changed \in BOOLEAN :
          ConfigChanged(new, theme_changed)

\* A handler that holds the guard completes: an update stores the new data, a view
\* replaces the frame.
Completes(handler, sample) ==
    LET r == AfterLock(handler, service, mutex, sample)
    IN /\ service' = r.service
       /\ frame' = IF r.frame = <<>> THEN frame ELSE r.frame

\* A module's handler is called on the thread of the modules: it calls
\* self.service.lock(), which waits while another owner holds the mutex.
Handle(handler, sample) ==
    /\ ui = "idle"
    /\ IF mutex.locked
       THEN ui' = handler /\ UNCHANGED <<service, frame>>
       ELSE Completes(handler, sample) /\ UNCHANGED ui
    /\ UNCHANGED mutex
    /\ UNCHANGED registry_vars

\* Message::Update of the CPU module
CpuModuleUpdate(sample) == Handle("CpuModule::update", sample)

\* Message::Update of the temperature module
TemperatureModuleUpdate(sample) == Handle("TemperatureModule::update", sample)

\* CpuModule::view
CpuModuleView == Handle("CpuModule::view", QuietSample)

\* TemperatureModule::view
TemperatureModuleView == Handle("TemperatureModule::view", QuietSample)

\* The mutex has been released and the waiting lock() call returns.
LockReturns(sample) ==
    /\ ui # "idle"
    /\ ~mutex.locked
    /\ Completes(ui, sample)
    /\ ui' = "idle"
    /\ UNCHANGED mutex
    /\ UNCHANGED registry_vars

\* Another owner of the shared service takes the mutex.
OtherLocks ==
    /\ ~mutex.locked
    /\ mutex' = [mutex EXCEPT !.locked = TRUE]
    /\ UNCHANGED <<service, ui, frame>>
    /\ UNCHANGED registry_vars

\* The other owner drops its guard.
OtherUnlocks ==
    /\ mutex.locked
    /\ mutex' = [mutex EXCEPT !.locked = FALSE]
    /\ UNCHANGED <<service, ui, frame>>
    /\ UNCHANGED registry_vars

\* The other owner panics while it holds the guard: the mutex is poisoned.
OtherPanics ==
    /\ mutex.locked
    /\ mutex' = [locked |-> FALSE, poisoned |-> TRUE]
    /\ UNCHANGED <<service, ui, frame>>
    /\ UNCHANGED registry_vars

\* The handlers of the system information modules and the other owner of the service.
NextSystemInfo ==
    \/ \E sample \in Samples : CpuModuleUpdate(sample)
    \/ \E sample \in Samples : TemperatureModuleUpdate(sample)
    \/ CpuModuleView
    \/ TemperatureModuleView
    \/ \E sample \in Samples : LockReturns(sample)
    \/ OtherLocks
    \/ OtherUnlocks
    \/ OtherPanics

Spec == InitOver(MenuConfigs) /\ [][Next]_vars

SpecRegistry == InitOver(RegistryConfigs) /\ [][NextRegistry]_vars

SpecEmptyName == InitOver(EmptyNameConfigs) /\ [][NextEmptyName]_vars

\* App::new for one configuration, over the readings the service can start with.
InitSystemInfo(samples) ==
    /\ config = [bars |-> <<BarTopSolid>>, outputs |-> FilterAll, scale_factor |-> 1,
                 enable_esc_key |-> TRUE]
    /\ LET r == OutputsNew(config.bars, config.scale_factor, 1)
       IN /\ outputs = r.reg
          /\ next_id = r.next
          /\ live = LiveAfter({}, r.tasks)
    /\ attached = {}
    /\ described = [h \in {} |-> EmptyName]
    /\ SystemInfoInit(samples)

SpecSystemInfo == InitSystemInfo(Samples) /\ [][NextSystemInfo]_vars


(***************************************************************************)
(* Properties.                                                             *)
(***************************************************************************)
Range(s) == {s[i] : i \in 1..Len(s)}

IsOpen(info) == info.menu.menu_info # <<>>

IsOpenWith(info, menu_type) == IsOpen(info) /\ info.menu.menu_info[1][1] = menu_type

\* The indexes, in AllInfos(reg), of the pairs with an open menu.
OpenPairs(reg) == {i \in 1..Len(AllInfos(reg)) : IsOpen(AllInfos(reg)[i])}

\* The indexes, in AllInfos(reg), of the pairs that own the surface id.
Owners(reg, id) == {i \in 1..Len(AllInfos(reg)) : IsTarget(AllInfos(reg)[i], id)}

\* The bar and menu surface ids of a list of pairs.
SurfaceIds(infos) ==
    {infos[i].id : i \in 1..Len(infos)} \cup {infos[i].menu.id : i \in 1..Len(infos)}

FallbackEntries(reg) == {e \in 1..Len(reg) : reg[e].wl_output = <<>>}

\* The entries of a display whose name the filter matches.
MatchedEntries(reg, request_outputs) ==
    {e \in 1..Len(reg) : reg[e].wl_output # <<>>
                         /\ name_in_config(reg[e].name, request_outputs)}

IsSurfaceRequest(r) == r.op \in {"get_layer_surface", "destroy_layer_surface"}

KeyboardRequests(t) == SelectSeq(t, LAMBDA r : r.op = "set_keyboard_interactivity")

\* C1: after any sequence of attach, detach, sync and menu operations at most one
\* Surface Pair of the registry has a non-empty menu slot.
C1_AtMostOneMenuOpen == Cardinality(OpenPairs(outputs)) <= 1

\* A menu is open while the registry holds the pairs of two displays.
C1_Witness ==
    /\ Cardinality(OpenPairs(outputs)) = 1
    /\ Cardinality({e \in 1..Len(outputs) : outputs[e].infos # <<>>}) >= 2

\* C2: after every attach, detach and sync the surfaces created and not destroyed
\* since are exactly the bar and menu surfaces of the registry's pairs.
C2_LiveSurfacesAreOwned == live = SurfaceIds(AllInfos(outputs))

\* Surfaces have been destroyed and a display's pairs are alive.
C2_Witness ==
    /\ live # UsedIds
    /\ \E e \in 1..Len(outputs) : outputs[e].wl_output # <<>> /\ outputs[e].infos # <<>>

\* C3: every entry of a display that the filter matches and whose pair list is
\* non-empty holds as many pairs as there are configured bar configurations.
C3_MatchedEntryHasAllBars ==
    \A e \in MatchedEntries(outputs, config.outputs) :
        outputs[e].infos # <<>> => Len(outputs[e].infos) = Len(config.bars)

\* C4: whenever no display of the registry matches the filter there is exactly one
\* fallback entry, and it holds as many pairs as there are configured bar
\* configurations.
C4_FallbackWhenNoMatch ==
    MatchedEntries(outputs, config.outputs) = {} =>
        /\ Cardinality(FallbackEntries(outputs)) = 1
        /\ \A e \in FallbackEntries(outputs) : Len(outputs[e].infos) = Len(config.bars)

\* C5: an attach of a display whose name matches the filter, made while the fallback
\* entry exists, removes the fallback entry, issues a destroy request for each of
\* its bar and menu surfaces, and leaves an entry of that display with newly
\* created pairs.
C5_AttachReplacesFallback ==
    [][\A wl_output \in Handles, name \in Names :
          ( /\ OutputCreated(wl_output, name)
            /\ name_in_config(name, config.outputs)
            /\ FallbackEntries(outputs) # {} )
          => LET r == OutputsAdd(outputs, next_id, config.bars, config.outputs, name,
                                 wl_output, config.scale_factor)
                 old == UNION {SurfaceIds(outputs[e].infos) : e \in FallbackEntries(outputs)}
             IN /\ FallbackEntries(outputs') = {}
                /\ \A id \in old : destroy_layer_surface(id) \in Range(r.tasks)
                /\ old \cap live' = {}
                /\ \E e \in 1..Len(outputs') :
                      /\ outputs'[e].name = name
                      /\ outputs'[e].wl_output = <<wl_output>>
                      /\ outputs'[e].infos # <<>>
                      /\ SurfaceIds(outputs'[e].infos) \subseteq live' \ UsedIds]_vars

\* The first matching display has been attached: the surfaces of the initial
\* fallback are gone and an attached display owns pairs.
C5_Witness ==
    /\ FallbackEntries(outputs) = {}
    /\ 1 \notin live
    /\ \E e \in 1..Len(outputs) :
          /\ outputs[e].infos # <<>>
          /\ outputs[e].wl_output # <<>>
          /\ outputs[e].wl_output[1] \in attached

\* C6: with at least one bar configuration some entry of the registry always has a
\* non-empty pair list.
C6_BarAlwaysShown ==
    Len(config.bars) >= 1 => \E e \in 1..Len(outputs) : outputs[e].infos # <<>>

\* Every display has been detached again and a new fallback shows the bar.
C6_Witness ==
    /\ attached = {}
    /\ \E e \in FallbackEntries(outputs) : outputs[e].infos # <<>> /\ outputs[e].infos[1].id > 1

\* C7: from every reachable registry, a second sync with the bar configurations,
\* filter and scale factor of the first issues no destroy and no create request and
\* leaves the registry as the first left it.
C7_SyncIdempotent ==
    \A new \in RegistryConfigs :
        LET r1 == OutputsSync(outputs, next_id, new.bars, new.outputs, new.scale_factor)
            r2 == OutputsSync(r1.reg, r1.next, new.bars, new.outputs, new.scale_factor)
        IN /\ r2.reg = r1.reg
           /\ \A i \in 1..Len(r2.tasks) : ~IsSurfaceRequest(r2.tasks[i])

\* C8: toggle_menu on a pair that is Closed or open with another kind leaves that
\* pair Open with the given kind and anchor and every other pair Closed; on a pair
\* open with the same kind it leaves that pair Closed.
C8_ToggleResult ==
    \A menu_type \in MenuTypes, id \in UsedIds, button_ui_ref \in ButtonUIRefs :
        \A t \in Owners(outputs, id) :
            LET r == toggle_menu(outputs, id, menu_type, button_ui_ref,
                                 config.enable_esc_key)
            IN IF IsOpenWith(AllInfos(outputs)[t], menu_type)
               THEN ~IsOpen(AllInfos(r.reg)[t])
               ELSE /\ AllInfos(r.reg)[t].menu.menu_info
                          = << <<menu_type, button_ui_ref>> >>
                    /\ OpenPairs(r.reg) = {t}

\* A menu is open with the second anchor on the second pair of a display.
C8_Witness ==
    \E e \in 1..Len(outputs) :
        /\ outputs[e].wl_output # <<>>
        /\ Len(outputs[e].infos) = 2
        /\ IsOpen(outputs[e].infos[2])
        /\ outputs[e].infos[2].menu.menu_info[1][2] = 2

\* C9: a toggle_menu with keyboard requested that opens a menu on a pair, followed
\* by a second toggle_menu on that pair with the same kind and anchor, leaves the
\* pair Closed, and the second call issues a keyboard release (interactivity
\* None) for the bar surface of the pair.
C9_ToggleTwice ==
    \A menu_type \in MenuTypes, id \in UsedIds, button_ui_ref \in ButtonUIRefs :
        \A t \in Owners(outputs, id) :
            ~IsOpenWith(AllInfos(outputs)[t], menu_type)
            => LET first == toggle_menu(outputs, id, menu_type, button_ui_ref, TRUE)
                   second == toggle_menu(first.reg, id, menu_type, button_ui_ref, TRUE)
               IN /\ IsOpenWith(AllInfos(first.reg)[t], menu_type)
                  /\ ~IsOpen(AllInfos(second.reg)[t])
                  /\ set_keyboard_interactivity(AllInfos(outputs)[t].id, "None")
                        \in Range(second.tasks)

\* Between the two calls: keyboard handling is on and the first call has opened
\* the menu of a display's pair.
C9_Witness ==
    /\ config.enable_esc_key
    /\ \E e \in 1..Len(outputs) :
          /\ outputs[e].wl_output # <<>>
          /\ \E i \in 1..Len(outputs[e].infos) : IsOpen(outputs[e].infos[i])

\* C10: toggle_menu with request_keyboard true on a pair of the registry issues
\* exactly one keyboard request, to the bar surface of that pair: OnDemand when the
\* pair ends Open, None when it ends Closed (no other pair is open then); with
\* request_keyboard false it issues no keyboard request.
C10_ToggleKeyboard ==
    \A menu_type \in MenuTypes, id \in UsedIds, button_ui_ref \in ButtonUIRefs :
        \A t \in Owners(outputs, id) :
            LET with == toggle_menu(outputs, id, menu_type, button_ui_ref, TRUE)
                without == toggle_menu(outputs, id, menu_type, button_ui_ref, FALSE)
                bar == AllInfos(outputs)[t].id
            IN /\ KeyboardRequests(without.tasks) = <<>>
               /\ IF IsOpen(AllInfos(with.reg)[t])
                  THEN KeyboardRequests(with.tasks)
                          = << set_keyboard_interactivity(bar, "OnDemand") >>
                  ELSE /\ KeyboardRequests(with.tasks)
                             = << set_keyboard_interactivity(bar, "None") >>
                       /\ OpenPairs(with.reg) = {}

\* A menu is open on one pair while another display's pair, on which a toggle would
\* take the keyboard over, is closed.
C10_Witness ==
    /\ Cardinality(OpenPairs(outputs)) = 1
    /\ \E e \in 1..Len(outputs) :
          /\ outputs[e].wl_output # <<>>
          /\ \E i \in 1..Len(outputs[e].infos) : ~IsOpen(outputs[e].infos[i])

\* C11: with a Tray menu open on a pair P1, toggle_menu on another pair P2 with kind
\* Settings, an anchor and keyboard requested leaves P1 Closed and P2 Open with
\* Settings and that anchor, and the batch holds exactly one keyboard request: the
\* grant (OnDemand) for the bar surface of P2; none is addressed to the bar of P1.
C11_ToggleTakesOver ==
    \A id \in UsedIds, button_ui_ref \in ButtonUIRefs :
        \A p1 \in OpenPairs(outputs), p2 \in Owners(outputs, id) :
            (p1 # p2 /\ IsOpenWith(AllInfos(outputs)[p1], "Tray(bluez)"))
            => LET r == toggle_menu(outputs, id, "Settings", button_ui_ref, TRUE)
                   after == AllInfos(r.reg)
               IN /\ ~IsOpen(after[p1])
                  /\ after[p2].menu.menu_info = << <<"Settings", button_ui_ref>> >>
                  /\ KeyboardRequests(r.tasks)
                        = << set_keyboard_interactivity(AllInfos(outputs)[p2].id, "OnDemand") >>
                  /\ \A i \in 1..Len(r.tasks) :
                        r.tasks[i].op = "set_keyboard_interactivity"
                        => r.tasks[i].id # AllInfos(outputs)[p1].id

\* The Tray menu is open on the first pair of a display that has a second pair.
C11_Witness ==
    \E e \in 1..Len(outputs) :
        /\ outputs[e].wl_output # <<>>
        /\ Len(outputs[e].infos) = 2
        /\ IsOpenWith(outputs[e].infos[1], "Tray(bluez)")
        /\ ~IsOpen(outputs[e].infos[2])

\* The keyboard revokes (interactivity None) of a batch.
Revokes(t) == SelectSeq(KeyboardRequests(t), LAMBDA r : r.mode = "None")

\* C12: close_menu on a pair of the registry leaves that pair Closed whatever its
\* state was and the menu slot of every other pair as it was; the batch holds one
\* keyboard revoke when escape-key handling is enabled and no pair is open after
\* the close, and no keyboard request otherwise.
C12_CloseMenu ==
    \A id \in UsedIds, esc_button_enabled \in BOOLEAN :
        \A t \in Owners(outputs, id) :
            LET r == close_menu(outputs, id, esc_button_enabled)
                before == AllInfos(outputs)
                after == AllInfos(r.reg)
            IN /\ ~IsOpen(after[t])
               /\ \A k \in 1..Len(before) : k # t => after[k].menu = before[k].menu
               /\ IF esc_button_enabled /\ OpenPairs(r.reg) = {}
                  THEN Len(Revokes(r.tasks)) = 1 /\ Len(KeyboardRequests(r.tasks)) = 1
                  ELSE KeyboardRequests(r.tasks) = <<>>

\* Escape-key handling is on and a Settings menu is open on the second pair of a
\* display: closing that pair revokes the keyboard, closing the first does not.
C12_Witness ==
    /\ config.enable_esc_key
    /\ \E e \in 1..Len(outputs) :
          /\ outputs[e].wl_output # <<>>
          /\ Len(outputs[e].infos) = 2
          /\ IsOpenWith(outputs[e].infos[2], "Settings")

\* C13: close_menu_if on a pair open with the given kind leaves it Closed; on a
\* pair that is Closed or open with another kind it changes no menu slot and issues
\* no request.
C13_CloseMenuIf ==
    \A id \in UsedIds, menu_type \in MenuTypes :
        \A t \in Owners(outputs, id) :
            LET r == close_menu_if(outputs, id, menu_type, config.enable_esc_key)
            IN IF IsOpenWith(AllInfos(outputs)[t], menu_type)
               THEN ~IsOpen(AllInfos(r.reg)[t])
               ELSE r.reg = outputs /\ r.tasks = <<>>

\* C14: after close_all_menus no pair of the registry is open; after
\* close_all_menu_if with a kind no pair is open with that kind, and every pair
\* that was open with another kind keeps its kind and anchor.
C14_CloseAll ==
    \A esc_button_enabled \in BOOLEAN :
        /\ OpenPairs(close_all_menus(outputs, esc_button_enabled).reg) = {}
        /\ \A menu_type \in MenuTypes :
              LET r == close_all_menu_if(outputs, menu_type, esc_button_enabled)
                  before == AllInfos(outputs)
                  after == AllInfos(r.reg)
              IN \A k \in 1..Len(before) :
                    /\ ~IsOpenWith(after[k], menu_type)
                    /\ (IsOpen(before[k]) /\ ~IsOpenWith(before[k], menu_type))
                       => after[k].menu = before[k].menu

\* An Updates menu is open with the second anchor on the fallback's second pair:
\* close_all_menus closes it, close_all_menu_if with the Tray kind keeps it.
C14_Witness ==
    \E e \in FallbackEntries(outputs) :
        /\ Len(outputs[e].infos) = 2
        /\ outputs[e].infos[2].menu.menu_info = << <<"Updates", 2>> >>

\* The ids the keyboard requests of a batch are addressed to.
KeyboardIds(t) == {r.id : r \in Range(KeyboardRequests(t))}

\* C15: every keyboard request issued by toggle_menu, close_menu, close_menu_if,
\* close_all_menus and close_all_menu_if is addressed to the bar surface id of a
\* pair of the registry, also when the call names the pair by its menu surface id.
C15_KeyboardToBarSurface ==
    LET esc == config.enable_esc_key
        bars == Range(BarIds(outputs))
    IN /\ KeyboardIds(close_all_menus(outputs, esc).tasks) \subseteq bars
       /\ \A menu_type \in MenuTypes :
             KeyboardIds(close_all_menu_if(outputs, menu_type, esc).tasks) \subseteq bars
       /\ \A id \in SurfaceIds(AllInfos(outputs)) :
             /\ KeyboardIds(close_menu(outputs, id, esc).tasks) \subseteq bars
             /\ \A menu_type \in MenuTypes :
                   /\ KeyboardIds(close_menu_if(outputs, id, menu_type, esc).tasks)
                         \subseteq bars
                   /\ \A button_ui_ref \in ButtonUIRefs :
                         KeyboardIds(toggle_menu(outputs, id, menu_type, button_ui_ref,
                                                 esc).tasks) \subseteq bars

\* C16: a call of toggle_menu, close_menu, close_menu_if, close_all_menus or
\* close_all_menu_if that leaves every menu slot as it was issues no keyboard
\* request.
C16_KeyboardOnlyWithTransition ==
    LET esc == config.enable_esc_key
        quiet(r) == r.reg = outputs => KeyboardRequests(r.tasks) = <<>>
    IN /\ quiet(close_all_menus(outputs, esc))
       /\ \A menu_type \in MenuTypes : quiet(close_all_menu_if(outputs, menu_type, esc))
       /\ \A id \in UsedIds :
             /\ quiet(close_menu(outputs, id, esc))
             /\ \A menu_type \in MenuTypes :
                   /\ quiet(close_menu_if(outputs, id, menu_type, esc))
                   /\ \A button_ui_ref \in ButtonUIRefs :
                         quiet(toggle_menu(outputs, id, menu_type, button_ui_ref, esc))

\* The entries of the registry stored under a display name.
EntriesNamed(reg, name) == {e \in 1..Len(reg) : reg[e].name = name}

\* C17: an attach of a display whose name matches the filter issues a destroy
\* request for every bar and menu surface of the prior entries stored under that
\* name, and afterwards exactly one entry has that name: it holds the new handle
\* and newly created pairs, one per bar configuration.
C17_AttachReplacesSameName ==
    [][\A wl_output \in Handles, name \in Names :
          (OutputCreated(wl_output, name) /\ name_in_config(name, config.outputs))
          => LET r == OutputsAdd(outputs, next_id, config.bars, config.outputs, name,
                                 wl_output, config.scale_factor)
                 old == UNION {SurfaceIds(outputs[e].infos) : e \in EntriesNamed(outputs, name)}
             IN /\ \A id \in old : destroy_layer_surface(id) \in Range(r.tasks)
                /\ old \cap live' = {}
                /\ Cardinality(EntriesNamed(outputs', name)) = 1
                /\ \A e \in EntriesNamed(outputs', name) :
                      /\ outputs'[e].wl_output = <<wl_output>>
                      /\ Len(outputs'[e].infos) = Len(config.bars)
                      /\ SurfaceIds(outputs'[e].infos) \subseteq live' \ UsedIds]_vars

\* C18: an attach of a display whose name does not match the filter appends an
\* entry with that name, that handle and no pairs, issues no request, allocates no
\* surface id, and leaves every existing entry, the fallback and every menu slot
\* included, as it was.
C18_UnmatchedAttachRecordsEmpty ==
    [][\A wl_output \in Handles, name \in Names :
          (OutputCreated(wl_output, name) /\ ~name_in_config(name, config.outputs))
          => /\ outputs' = Append(outputs, Entry(name, <<>>, <<wl_output>>))
             /\ OutputsAdd(outputs, next_id, config.bars, config.outputs, name, wl_output,
                           config.scale_factor).tasks = <<>>
             /\ live' = live
             /\ next_id' = next_id]_vars

\* An unmatched display has been attached next to the fallback: the filter names
\* targets, and the display's entry is empty while the display is attached.
C18_Witness ==
    /\ config.outputs.kind = "Targets"
    /\ FallbackEntries(outputs) # {}
    /\ \E e \in 1..Len(outputs) :
          /\ outputs[e].name = HDMI1
          /\ outputs[e].infos = <<>>
          /\ outputs[e].wl_output # <<>>
          /\ outputs[e].wl_output[1] \in attached

\* The entries of the registry that hold a display handle.
EntriesOf(reg, wl_output) == {e \in 1..Len(reg) : reg[e].wl_output = <<wl_output>>}

\* C19: a detach of a handle that entries of the registry hold issues a destroy
\* request for every bar and menu surface of those entries and leaves each of them
\* in the registry with its name, its handle and no pairs; a fallback entry with
\* newly created pairs, one per bar configuration, is added exactly when no other
\* entry holds pairs.
C19_DetachEmptiesEntry ==
    [][\A wl_output \in Handles :
          (OutputRemoved(wl_output) /\ EntriesOf(outputs, wl_output) # {})
          => LET r == OutputsRemove(outputs, next_id, config.bars, wl_output,
                                    config.scale_factor)
                 owned == EntriesOf(outputs, wl_output)
                 old == UNION {SurfaceIds(outputs[e].infos) : e \in owned}
                 created == {e \in FallbackEntries(outputs') :
                                /\ Len(outputs'[e].infos) = Len(config.bars)
                                /\ SurfaceIds(outputs'[e].infos) \subseteq live' \ UsedIds}
             IN /\ \A id \in old : destroy_layer_surface(id) \in Range(r.tasks)
                /\ old \cap live' = {}
                /\ Cardinality(EntriesOf(outputs', wl_output)) = Cardinality(owned)
                /\ \A e \in owned :
                      Entry(outputs[e].name, <<>>, <<wl_output>>) \in Range(outputs')
                /\ \A e \in EntriesOf(outputs', wl_output) : outputs'[e].infos = <<>>
                /\ created # {}
                   <=> ~\E e \in 1..Len(outputs) : e \notin owned /\ outputs[e].infos # <<>>
                /\ created = {} => next_id' = next_id]_vars

\* C20: after a sync with any bar configurations, filter and scale factor, every
\* entry with a display handle whose name the filter does not match has no pairs,
\* the surfaces such entries held before have got a destroy request, and every entry
\* with a display handle whose name the filter matches has pairs.
C20_SyncFollowsFilter ==
    \A new \in RegistryConfigs :
        LET r == OutputsSync(outputs, next_id, new.bars, new.outputs, new.scale_factor)
            unmatched_before == {e \in 1..Len(outputs) :
                                    /\ outputs[e].wl_output # <<>>
                                    /\ ~name_in_config(outputs[e].name, new.outputs)}
        IN /\ \A e \in 1..Len(r.reg) :
                 r.reg[e].wl_output # <<>>
                 => (r.reg[e].infos # <<>> <=> name_in_config(r.reg[e].name, new.outputs))
           /\ \A e \in unmatched_before : \A id \in SurfaceIds(outputs[e].infos) :
                 destroy_layer_surface(id) \in Range(r.tasks)

\* The bar id, menu id and menu slot of each pair of a list.
Identity(infos) == [i \in 1..Len(infos) |-> [id |-> infos[i].id, menu |-> infos[i].menu]]

\* C21: a sync with any bar configurations, filter and scale factor issues no
\* destroy request for the surfaces of a display's entry that held pairs before the
\* call and whose name the new filter matches, and the entry is in the registry
\* afterwards with the same bar surface ids, menu surface ids and menu slots.
C21_SyncKeepsMatchedSurfaces ==
    \A new \in MenuConfigs :
        LET r == OutputsSync(outputs, next_id, new.bars, new.outputs, new.scale_factor)
        IN \A e \in MatchedEntries(outputs, new.outputs) :
              outputs[e].infos # <<>>
              => /\ \A id \in SurfaceIds(outputs[e].infos) :
                       destroy_layer_surface(id) \notin Range(r.tasks)
                 /\ \E k \in 1..Len(r.reg) :
                       /\ r.reg[k].name = outputs[e].name
                       /\ r.reg[k].wl_output = outputs[e].wl_output
                       /\ Identity(r.reg[k].infos) = Identity(outputs[e].infos)

\* The pairs of a registry with the index each has in its entry.
IndexedPairs(reg) ==
    UNION {{[info |-> reg[e].infos[i], i |-> i] : i \in 1..Len(reg[e].infos)} :
              e \in 1..Len(reg)}

\* The resize and exclusive-zone requests of a batch that are addressed to a surface.
UpdatesOf(t, id) == SelectSeq(t, LAMBDA r : r.op \in {"set_size", "set_exclusive_zone"}
                                            /\ r.id = id)

\* C22: a sync that changes only the style of the single bar of a matched display
\* from Solid to Islands issues for that bar surface one resize and one
\* exclusive-zone update carrying the new height, and no destroy or create request;
\* and every sync issues that pair of updates for a pair of the registry exactly when
\* the bar configuration or the scale factor stored in it differs from the new
\* value at its index.
C22_SyncUpdatesInPlace ==
    /\ \A e \in MatchedEntries(outputs, config.outputs) :
          ( /\ config.bars = << BarTopSolid >>
            /\ Len(outputs[e].infos) = 1
            /\ outputs[e].infos[1].config = BarTopSolid
            /\ outputs[e].infos[1].scale_factor = config.scale_factor )
          => LET r == OutputsSync(outputs, next_id, << BarTopIslands >>, config.outputs,
                                  config.scale_factor)
                 id == outputs[e].infos[1].id
                 height == HEIGHT * config.scale_factor
             IN /\ UpdatesOf(r.tasks, id)
                      = << set_size(id, height), set_exclusive_zone(id, height) >>
                /\ \A k \in 1..Len(r.tasks) : ~IsSurfaceRequest(r.tasks[k])
    /\ \A new \in RegistryConfigs :
          LET r == OutputsSync(outputs, next_id, new.bars, new.outputs, new.scale_factor)
              stale(p) == \E q \in IndexedPairs(outputs) :
                             /\ q.info.id = p.info.id
                             /\ p.i <= Len(new.bars)
                             /\ \/ q.info.config # new.bars[p.i]
                                \/ q.info.scale_factor # new.scale_factor
          IN \A p \in IndexedPairs(r.reg) :
                IF stale(p)
                THEN LET height == get_height(StyleOf(new.bars[p.i]), new.scale_factor)
                     IN UpdatesOf(r.tasks, p.info.id)
                           = << set_size(p.info.id, height),
                                set_exclusive_zone(p.info.id, height) >>
                ELSE UpdatesOf(r.tasks, p.info.id) = <<>>

\* C23: in every event, each pair that leaves the registry has both its bar surface
\* and its menu surface destroyed by the requests of that event, whether its menu
\* is open or not, and no event destroys one surface of a pair without the other.
C23_PairDestroyedTogether ==
    [][\A i \in 1..Len(AllInfos(outputs)) :
          LET info == AllInfos(outputs)[i]
          IN /\ info.id \in live' <=> info.menu.id \in live'
             /\ info.id \notin SurfaceIds(AllInfos(outputs'))
                => info.id \notin live' /\ info.menu.id \notin live']_vars

\* A pair has left the registry from a state the model reaches with its menu open:
\* a display's pair is gone while another entry's menu is open.
C23_Witness ==
    /\ \E id \in UsedIds : id > 2 /\ id \notin live
    /\ OpenPairs(outputs) # {}
    /\ attached # {}

\* C24: has gives, for the bar surface id of a pair of the registry, the bar role
\* with that pair and its bar configuration; for the menu surface id of a pair, the
\* menu role with the pair's current menu slot; and None for every id that no pair
\* owns, the ids of destroyed surfaces and the ids not yet handed out included.
C24_HasResolvesRole ==
    \A id \in 1..(MaxIds + 1) :
        LET infos == AllInfos(outputs)
            found == has(outputs, id)
        IN /\ \A i \in 1..Len(infos) :
                 /\ infos[i].id = id
                    => /\ found.role = "Main"
                       /\ found.info = infos[i]
                       /\ found.info.config = infos[i].config
                 /\ infos[i].menu.id = id
                    => /\ found.role = "Menu"
                       /\ found.menu_info = infos[i].menu.menu_info
           /\ id \notin SurfaceIds(infos) => found.role = "None"
           /\ id \notin live => found.role = "None"

\* The Settings menu is open on a display's second pair while the surfaces of the
\* initial fallback have been destroyed.
C24_Witness ==
    /\ 1 \notin live
    /\ \E e \in 1..Len(outputs) :
          /\ Len(outputs[e].infos) = 2
          /\ IsOpenWith(outputs[e].infos[2], "Settings")
          /\ ~IsOpen(outputs[e].infos[1])

\* C25: no two entries of the registry hold the same display handle (every handle
\* is attached again only after it has been detached).
C25_HandleHeldOnce ==
    \A a, b \in 1..Len(outputs) :
        (a # b /\ outputs[a].wl_output # <<>>) => outputs[a].wl_output # outputs[b].wl_output

\* C26: while the filter is Active an attach of any display appends an empty entry
\* and issues no request, and after a sync to the Active filter the only entries
\* that hold pairs are entries without a display handle (the fallback).
C26_ActiveCreatesNothing ==
    /\ config.outputs.kind = "Active"
       => \A wl_output \in Handles, name \in Names :
             LET r == OutputsAdd(outputs, next_id, config.bars, config.outputs, name,
                                 wl_output, config.scale_factor)
             IN /\ r.reg = Append(outputs, Entry(name, <<>>, <<wl_output>>))
                /\ r.tasks = <<>>
    /\ \A new \in RegistryConfigs :
          new.outputs.kind = "Active"
          => LET r == OutputsSync(outputs, next_id, new.bars, new.outputs,
                                  new.scale_factor)
             IN \A e \in 1..Len(r.reg) :
                   r.reg[e].infos # <<>> => r.reg[e].wl_output = <<>>

\* C27: an attach of a display with the empty name creates surfaces under the All
\* filter only: under Active and under every Targets list it appends an empty entry
\* and leaves the surfaces as they are.
C27_EmptyNameMatchesAllOnly ==
    [][\A wl_output \in Handles :
          (OutputCreated(wl_output, EmptyName) /\ config.outputs.kind # "All")
          => /\ outputs' = Append(outputs, Entry(EmptyName, <<>>, <<wl_output>>))
             /\ live' = live
             /\ next_id' = next_id]_vars

\* The configuration of the scenario: two bars, filter Targets(["eDP"]).
IsScenarioConfig ==
    /\ config.bars = << BarTopSolid, BarBottomSolid >>
    /\ config.outputs = FilterTargets(<< EDP >>)

\* The registry holds "eDP-1" with handle h1 and two pairs, then "HDMI-1" with
\* handle h2 and no pairs, and nothing else.
ScenarioBeforeDetach(h1, h2) ==
    /\ IsScenarioConfig
    /\ Len(outputs) = 2
    /\ outputs[1].name = EDP1 /\ outputs[1].wl_output = <<h1>> /\ Len(outputs[1].infos) = 2
    /\ outputs[2] = Entry(HDMI1, <<>>, <<h2>>)

\* C28: with two bars and filter Targets(["eDP"]), from the registry of
\* Outputs::new: the attach of "eDP-1" leaves one entry, "eDP-1" with two new pairs,
\* and no fallback; the attach of "HDMI-1" then appends an empty entry and issues
\* no request; the detach of "eDP-1" then destroys the four surfaces of its two
\* pairs, leaves its entry empty, and appends a fallback entry with two new pairs.
C28_Scenario ==
    \A h1, h2 \in Handles :
        /\ ( /\ IsScenarioConfig
             /\ outputs = OutputsNew(config.bars, config.scale_factor, 1).reg
             /\ next_id = 5 )
           => LET r == OutputsAdd(outputs, next_id, config.bars, config.outputs, EDP1, h1,
                                  config.scale_factor)
              IN /\ Len(r.reg) = 1
                 /\ r.reg[1].name = EDP1 /\ r.reg[1].wl_output = <<h1>>
                 /\ Len(r.reg[1].infos) = 2
                 /\ SurfaceIds(r.reg[1].infos) = 5..8
                 /\ LiveAfter(live, r.tasks) = 5..8
        /\ ( /\ IsScenarioConfig
             /\ h1 # h2
             /\ Len(outputs) = 1
             /\ outputs[1].name = EDP1 /\ outputs[1].wl_output = <<h1>>
             /\ Len(outputs[1].infos) = 2 )
           => LET r == OutputsAdd(outputs, next_id, config.bars, config.outputs, HDMI1, h2,
                                  config.scale_factor)
              IN /\ r.reg = Append(outputs, Entry(HDMI1, <<>>, <<h2>>))
                 /\ r.tasks = <<>>
        /\ ScenarioBeforeDetach(h1, h2)
           => LET r == OutputsRemove(outputs, next_id, config.bars, h1, config.scale_factor)
                  old == SurfaceIds(outputs[1].infos)
              IN /\ Cardinality(old) = 4
                 /\ \A id \in old : destroy_layer_surface(id) \in Range(r.tasks)
                 /\ Len(r.reg) = 3
                 /\ r.reg[1] = Entry(HDMI1, <<>>, <<h2>>)
                 /\ r.reg[2] = Entry(EDP1, <<>>, <<h1>>)
                 /\ r.reg[3].name = Fallback /\ r.reg[3].wl_output = <<>>
                 /\ Len(r.reg[3].infos) = 2
                 /\ SurfaceIds(r.reg[3].infos) = next_id..(next_id + 3)
                 /\ LiveAfter(live, r.tasks) = next_id..(next_id + 3)

\* The two attaches of the scenario have been taken from the registry of
\* Outputs::new: "eDP-1" holds the pairs with surfaces 5 to 8, "HDMI-1" is empty.
C28_Witness ==
    /\ ScenarioBeforeDetach(1, 2)
    /\ SurfaceIds(outputs[1].infos) = 5..8
    /\ attached = {1, 2}
    /\ live = 5..8

\* The position of the first request with an operation and a surface id in a batch,
\* or 0.
PositionOf(t, op, id) == FirstIndex({i \in 1..Len(t) : t[i].op = op /\ t[i].id = id})

\* C29: when toggle_menu opens a menu on a pair while the menu of another pair is
\* open, wherever the two pairs are in the registry, at no point of the call's loop
\* are two menu slots open, and the request that closes the other pair's menu comes
\* before the request that opens the target's in the batch.
C29_CloseBeforeOpen ==
    \A menu_type \in MenuTypes, id \in UsedIds, button_ui_ref \in ButtonUIRefs :
        \A t \in Owners(outputs, id), o \in OpenPairs(outputs) :
            (o # t /\ ~IsOpenWith(AllInfos(outputs)[t], menu_type))
            => LET r == toggle_menu(outputs, id, menu_type, button_ui_ref,
                                    config.enable_esc_key)
                   hide == PositionOf(r.tasks, "hide_menu", AllInfos(outputs)[o].menu.id)
                   show == PositionOf(r.tasks, "show_menu", AllInfos(outputs)[t].menu.id)
               IN /\ \A k \in 0..Len(AllInfos(outputs)) :
                        Cardinality(OpenPairs(ToggleAfter(outputs, id, menu_type,
                            button_ui_ref, config.enable_esc_key, k).reg)) <= 1
                  /\ 0 < hide /\ hide < show

\* The surfaces that entries of a registry hold under a name, restricted to ids.
SurfacesNamed(reg, name, ids) ==
    UNION {SurfaceIds(reg[e].infos) : e \in EntriesNamed(reg, name)} \cap ids

\* In no prefix of the batch r.tasks, applied to the live surfaces, are surfaces that
\* the registry held under a name before the call alive together with surfaces
\* created in the call that the registry holds under that name after it.
OneGenerationAlive(r) ==
    \A k \in 0..Len(r.tasks) :
        LET alive == LiveAfter(live, SubSeq(r.tasks, 1, k))
        IN \A e \in 1..Len(r.reg) :
              \/ SurfacesNamed(outputs, r.reg[e].name, alive) = {}
              \/ SurfacesNamed(r.reg, r.reg[e].name, alive \ UsedIds) = {}

\* C30: in the batch of an attach and in the batch of a sync, the destroy requests
\* for the surfaces an entry held come before the create requests for the surfaces
\* that replace them under the same name: in no prefix of the batch are two
\* generations of surfaces of one name alive.
C30_DestroyBeforeCreate ==
    /\ \A wl_output \in Handles \ attached, name \in Names :
          OneGenerationAlive(OutputsAdd(outputs, next_id, config.bars, config.outputs,
                                        name, wl_output, config.scale_factor))
    /\ \A new \in RegistryConfigs :
          OneGenerationAlive(OutputsSync(outputs, next_id, new.bars, new.outputs,
                                         new.scale_factor))

\* The create requests of a batch for a surface id.
CreatesOf(t, id) == SelectSeq(t, LAMBDA r : r.op = "get_layer_surface" /\ r.id = id)

\* C31: create_output_layers, for a display or for none (the active display),
\* returns one pair per bar configuration in list order, each with a bar id and a
\* menu id not handed out before and a Closed menu, and its batch holds for each
\* pair exactly one create request for the bar surface, with the bar's height as
\* exclusive zone, and one for the menu surface, with exclusive zone 0, both with
\* keyboard interactivity None and the given target, and nothing else.
C31_CreateOutputLayers ==
    \A target \in {<<>>} \cup {<<h>> : h \in Handles}, bar_configs \in BarConfigLists,
       scale_factor \in ScaleFactors :
        LET c == create_output_layers(target, bar_configs, scale_factor, next_id)
            n == Len(bar_configs)
            adjust(i) == IF bar_configs[i].appearance[1] = "Islands" THEN 0 ELSE 8
        IN /\ Len(c.infos) = n
           /\ Len(c.tasks) = 2 * n
           /\ Cardinality(SurfaceIds(c.infos)) = 2 * n
           /\ SurfaceIds(c.infos) \cap UsedIds = {}
           /\ SurfaceIds(c.infos) \subseteq next_id..(c.next - 1)
           /\ \A i \in 1..n :
                 LET info == c.infos[i]
                     bar == CreatesOf(c.tasks, info.id)
                     menu == CreatesOf(c.tasks, info.menu.id)
                 IN /\ info.config = bar_configs[i]
                    /\ info.scale_factor = scale_factor
                    /\ info.menu.menu_info = <<>>
                    /\ Len(bar) = 1 /\ Len(menu) = 1
                    /\ bar[1].height = (HEIGHT - adjust(i)) * scale_factor
                    /\ bar[1].exclusive_zone = bar[1].height
                    /\ bar[1].keyboard_interactivity = "None"
                    /\ bar[1].output = target
                    /\ menu[1].exclusive_zone = 0
                    /\ menu[1].keyboard_interactivity = "None"
                    /\ menu[1].output = target

\* The factory has created the two pairs of a display at scale 2, the second with a
\* Bottom bar, after the fallback's surfaces.
C31_Witness ==
    \E e \in 1..Len(outputs) :
        /\ outputs[e].wl_output # <<>>
        /\ Len(outputs[e].infos) = 2
        /\ outputs[e].infos[2].config = BarBottomSolid
        /\ outputs[e].infos[2].scale_factor = 2
        /\ outputs[e].infos[1].id > 2
        /\ SurfaceIds(outputs[e].infos) \subseteq live

\* C32: when a module's handler is called while the shared service's mutex cannot be
\* acquired (another owner holds it, or it is poisoned), the service's stored data
\* stays as it is, the handler returns instead of waiting for the mutex, and a view
\* renders zero CPU values or no temperature reading.
C32_LockUnavailable ==
    [][(/\ ui = "idle"
        /\ mutex.locked \/ mutex.poisoned
        /\ mutex' = mutex)
       => /\ service' = service
          /\ ui' = "idle"
          /\ frame' # frame =>
                frame' \in {<<CpuElement(CpuData(0, 0, 0, 0))>>,
                            <<TemperatureElement(TemperatureData(<<>>, SENSOR))>>}]_vars

\* C33: after any sequence of attach, detach and sync, every entry that is not the
\* fallback and whose pair list is non-empty belongs to a display that is currently
\* attached.
C33_PairsOnlyOnAttached ==
    \A e \in 1..Len(outputs) :
        (outputs[e].wl_output # <<>> /\ outputs[e].infos # <<>>)
            => outputs[e].wl_output[1] \in attached

\* C34: after every attach, detach and sync, every display that is currently attached
\* and whose name the current filter matches owns an entry with a non-empty pair
\* list, also when another attached display reports the same name.
C34_MatchedAttachedHasPairs ==
    \A h \in attached :
        name_in_config(described[h], config.outputs)
            => \E e \in 1..Len(outputs) :
                  outputs[e].wl_output = <<h>> /\ outputs[e].infos # <<>>

\* The surfaces that hold on-demand keyboard interactivity after a batch of requests:
\* those whose last keyboard request asked for OnDemand.
RECURSIVE KeyboardAfter(_, _)
KeyboardAfter(granted, reqs) ==
    IF reqs = <<>> THEN granted
    ELSE LET r == Head(reqs)
         IN KeyboardAfter(IF r.op = "set_keyboard_interactivity"
                          THEN IF r.mode = "OnDemand" THEN granted \cup {r.id}
                               ELSE granted \ {r.id}
                          ELSE granted,
                          Tail(reqs))

\* The menu calls of the claim, with keyboard handling enabled.
MenuCalls ==
    [op : {"toggle_menu"}, id : UsedIds, menu_type : MenuTypes, button_ui_ref : {1}]
        \cup [op : {"close_menu"}, id : UsedIds]
        \cup [op : {"close_all_menus"}]

MenuCall(reg, call) ==
    CASE call.op = "toggle_menu" ->
             toggle_menu(reg, call.id, call.menu_type, call.button_ui_ref, TRUE)
      [] call.op = "close_menu" -> close_menu(reg, call.id, TRUE)
      [] call.op = "close_all_menus" -> close_all_menus(reg, TRUE)

\* The registry after a sequence of menu calls and the requests they issued, in order.
RECURSIVE MenuCallsFrom(_, _)
MenuCallsFrom(reg, calls) ==
    IF calls = <<>> THEN [reg |-> reg, tasks |-> <<>>]
    ELSE LET first == MenuCall(reg, Head(calls))
             rest == MenuCallsFrom(first.reg, Tail(calls))
         IN [reg |-> rest.reg, tasks |-> first.tasks \o rest.tasks]

\* The sequences of at most n menu calls.
RECURSIVE CallSequences(_)
CallSequences(n) ==
    IF n = 0 THEN {<<>>}
    ELSE LET shorter == CallSequences(n - 1)
         IN shorter \cup {Append(calls, call) : calls \in shorter, call \in MenuCalls}

\* C35: from a registry in which no menu has been opened, after any sequence of menu
\* calls (toggle_menu, close_menu, close_all_menus) with keyboard handling enabled
\* that ends with no menu open, every bar surface that was granted on-demand
\* keyboard has received a revoke after its last grant.
C35_KeyboardRevokedWhenClosed ==
    \A calls \in CallSequences(MaxCalls) :
        LET r == MenuCallsFrom(outputs, calls)
        IN ~menu_is_open(r.reg) => KeyboardAfter({}, r.tasks) \cap Range(BarIds(r.reg)) = {}

\* C36: with at least one bar configuration, the registry holds at most one fallback
\* entry, and it holds one exactly when no entry of a display has a non-empty pair
\* list.
C36_FallbackIffNoDisplayPairs ==
    config.bars # <<>> =>
        /\ Cardinality(FallbackEntries(outputs)) <= 1
        /\ FallbackEntries(outputs) # {}
              <=> ~\E e \in 1..Len(outputs) :
                     outputs[e].wl_output # <<>> /\ outputs[e].infos # <<>>

\* Displays have come and gone: the registry holds the empty entries of two displays
\* next to a fallback that is not the initial one.
C36_Witness ==
    /\ Cardinality(FallbackEntries(outputs)) = 1
    /\ Len(outputs) = 3
    /\ \A e \in FallbackEntries(outputs) :
          outputs[e].infos # <<>> /\ outputs[e].infos[1].id > 2

\* C37: toggle_menu called with an id that no pair owns leaves no menu open (it opens
\* none and closes every open one), keeps every pair's ids and configuration, and
\* its batch holds no keyboard request, also when the keyboard is requested.
C37_ToggleUnownedId ==
    \A id \in 1..next_id, menu_type \in MenuTypes, button_ui_ref \in ButtonUIRefs,
       request_keyboard \in BOOLEAN :
        Owners(outputs, id) = {} =>
            LET r == toggle_menu(outputs, id, menu_type, button_ui_ref, request_keyboard)
            IN /\ OpenPairs(r.reg) = {}
               /\ KeyboardRequests(r.tasks) = <<>>
               /\ Len(r.reg) = Len(outputs)
               /\ \A k \in 1..Len(AllInfos(outputs)) :
                     AllInfos(r.reg)[k] =
                         [AllInfos(outputs)[k] EXCEPT !.menu.menu_info = <<>>]

\* A menu is open with keyboard handling enabled while an id handed out earlier
\* belongs to no pair any more.
C37_Witness ==
    /\ config.enable_esc_key
    /\ OpenPairs(outputs) # {}
    /\ \E id \in UsedIds : Owners(outputs, id) = {}

\* C38: the handler of ConfigChanged calls sync with the new bar configurations,
\* filter and scale factor exactly when the filter, the bar configurations, the
\* position or style (theme_changed) or the scale factor differ from the ones in
\* use; otherwise the registry stays as it is and the batch is empty; either way the
\* attach and detach handlers that follow call add and remove with the new
\* configuration's bar configurations, filter and scale factor.
C38_ConfigChanged ==
    \A new \in RegistryConfigs, theme_changed \in BOOLEAN :
        LET r == config_changed(outputs, next_id, config, new, theme_changed)
            differs == \/ new.outputs # config.outputs
                       \/ new.bars # config.bars
                       \/ theme_changed
                       \/ new.scale_factor # config.scale_factor
            synced == OutputsSync(outputs, next_id, new.bars, new.outputs,
                                  new.scale_factor)
        IN /\ differs => r.reg = synced.reg /\ r.tasks = synced.tasks
                         /\ r.next = synced.next
           /\ ~differs => r.reg = outputs /\ r.tasks = <<>> /\ r.next = next_id
           /\ \A wl_output \in Handles :
                 /\ \A name \in Names :
                       output_created(r.reg, r.next, r.config, name, wl_output)
                           = OutputsAdd(r.reg, r.next, new.bars, new.outputs, name,
                                        wl_output, new.scale_factor)
                 /\ output_removed(r.reg, r.next, r.config, wl_output)
                       = OutputsRemove(r.reg, r.next, new.bars, wl_output,
                                       new.scale_factor)

\* A display attached under a one-bar configuration still holds its single pair
\* after ConfigChanged brought a two-bar configuration, and a display attached since
\* holds two pairs.
C38_Witness ==
    /\ Len(config.bars) = 2
    /\ \E e1, e2 \in 1..Len(outputs) :
          /\ outputs[e1].wl_output # <<>> /\ Len(outputs[e1].infos) = 1
          /\ outputs[e2].wl_output # <<>> /\ Len(outputs[e2].infos) = 2

\* C39: remove called with a handle that no entry holds leaves the registry as it is,
\* allocates no id and returns an empty batch.
C39_DetachUnownedHandle ==
    \A wl_output \in Handles, bar_configs \in BarConfigLists, scale_factor \in ScaleFactors :
        (\A e \in 1..Len(outputs) : outputs[e].wl_output # <<wl_output>>)
            => LET r == OutputsRemove(outputs, next_id, bar_configs, wl_output, scale_factor)
               IN r.reg = outputs /\ r.tasks = <<>> /\ r.next = next_id

\* An attached display whose handle no entry holds (a display of the same name took
\* its entry): its detach reaches remove with an unowned handle.
C39_Witness ==
    \E wl_output \in attached :
        /\ \A e \in 1..Len(outputs) : outputs[e].wl_output # <<wl_output>>
        /\ \E e \in 1..Len(outputs) : outputs[e].infos # <<>> /\ outputs[e].wl_output # <<>>

\* C40: no two entries of the registry have the same name, also after repeated
\* attaches of displays the filter does not match.
C40_NamesUnique ==
    \A e1, e2 \in 1..Len(outputs) : outputs[e1].name = outputs[e2].name => e1 = e2
=============================================================================
